---- MODULE Spec2Model ----
(***************************************************************************)
(* Model of the incremental embedding pipeline                             *)
(* (embedding_pipeline_blob.py, embedding_utils.py).                       *)
(*                                                                         *)
(* Every element of Runs is one invocation of                              *)
(* process_single_pdf_embeddings for the same document prefix.  The        *)
(* invocations share the blob container and the two MongoDB collections    *)
(* and may interleave at the store operations: the bulk existence query    *)
(* (find) and every single-document insert of an ordered insert_many.      *)
(***************************************************************************)
EXTENDS Integers, Sequences, FiniteSets, TLC

\* ---------------------------------------------------------------- bounds
MaxChunks == 3
MaxRows == 2

\* two invocations for the same document: a run and its retry, or two
\* concurrent triggers
\* longest word sequence given to chunk_text
MaxWords == 4

\* chunk_size and overlap range over -MaxSize..MaxSize
MaxSize == 3

Runs == {1, 2}

Lanes == {"text", "image"}

\* ------------------------------------------------------- names and paths
pdf_blob_prefix == <<"extracted_data", "doc">>

\* os.path.basename: the last component of the prefix
Basename(path) == path[Len(path)]

pdf_id == Basename(pdf_blob_prefix)

chunks_blob_name == pdf_blob_prefix \o <<pdf_id, "_chunks.json">>

captions_blob_name == pdf_blob_prefix \o <<"images", pdf_id, "_captions.csv">>

\* f"{pdf_id}_chunk_{k}", k is 1-based
ChunkId(k) == <<pdf_id, "chunk", k>>

\* f"{pdf_id}_{row['image_name']}"
ImageId(name) == <<pdf_id, "image", name>>

Range(s) == {s[i] : i \in 1..Len(s)}

Min(a, b) == IF a < b THEN a ELSE b

\* ------------------------------------------------- the blobs (the inputs)
\* Texts are numbers: chunk k of the document has text k, the caption of
\* image n is 10 + n.
JsonStr(v) == [isStr |-> TRUE, val |-> v]

JsonNum(v) == [isStr |-> FALSE, val |-> v]

MissingChunks == [exists |-> FALSE, isList |-> FALSE, elems |-> <<>>]

ChunksBlobs ==
    {MissingChunks}
    \cup {[exists |-> TRUE, isList |-> FALSE, elems |-> <<>>]}
    \cup {[exists |-> TRUE, isList |-> TRUE, elems |-> <<JsonStr(1), JsonNum(2)>>]}
    \cup {[exists |-> TRUE, isList |-> TRUE,
           elems |-> [k \in 1..n |-> JsonStr(k)]] : n \in 0..MaxChunks}

Row(n) == [image_name |-> n, caption |-> 10 + n]

RECURSIVE SortedRows(_, _)
\* the rows of the images in S, in extraction order (by page and index)
SortedRows(S, n) ==
    IF n > MaxRows THEN <<>>
    ELSE (IF n \in S THEN <<Row(n)>> ELSE <<>>) \o SortedRows(S, n + 1)

MissingCaptions == [exists |-> FALSE, rows |-> <<>>]

CaptionsBlobs ==
    {MissingCaptions}
    \cup {[exists |-> TRUE, rows |-> SortedRows(S, 1)] : S \in SUBSET (1..MaxRows)}

\* HF_API_TOKEN_1, HF_API_TOKEN_2: set (TRUE) or unset (FALSE)
TokenSettings == [t1 : BOOLEAN, t2 : BOOLEAN]

\* ------------------------------------------------- embedding_utils.py
\* client.feature_extraction(...).tolist(): the vector of one text
FeatureExtraction(text) == 1000 + text

RECURSIVE FeatureLoopBatch(_, _, _, _)
\* mutant of FeatureLoop: all texts go to the model in one call
FeatureLoopBatch(texts, i, embeddings, failAt) ==
    IF i > Len(texts)
    THEN [ok |-> TRUE, embeddings |-> embeddings, calls |-> Min(1, Len(texts))]
    ELSE IF i = failAt
    THEN [ok |-> FALSE, embeddings |-> embeddings, calls |-> 1]
    ELSE FeatureLoopBatch(texts, i + 1,
                          Append(embeddings, FeatureExtraction(texts[i])), failAt)

RECURSIVE FeatureLoop(_, _, _, _)
\* the inner loop over texts under one token; failAt is the index of the
\* text at which the call raises (0: no call raises)
FeatureLoop(texts, i, embeddings, failAt) ==
    IF i > Len(texts)
    THEN [ok |-> TRUE, embeddings |-> embeddings, calls |-> Len(texts)]
    ELSE IF i = failAt
    THEN [ok |-> FALSE, embeddings |-> embeddings, calls |-> i]
    ELSE FeatureLoop(texts, i + 1,
                     Append(embeddings, FeatureExtraction(texts[i])), failAt)

ApiTokens(tokens) == <<tokens.t1>> \o (IF tokens.t2 THEN <<tokens.t2>> ELSE <<>>)

RECURSIVE TokenLoopCarry(_, _, _, _, _, _)
\* mutant of TokenLoop: the embeddings list is not reset per token
TokenLoopCarry(texts, api_tokens, j, fail, embeddings, calls) ==
    IF j > Len(api_tokens)
    THEN [ok |-> FALSE, embeddings |-> <<>>, calls |-> calls]
    ELSE IF ~api_tokens[j]
    THEN TokenLoopCarry(texts, api_tokens, j + 1, fail, embeddings, calls)
    ELSE LET res == FeatureLoop(texts, 1, embeddings, fail[j])
         IN  IF res.ok
             THEN [ok |-> TRUE, embeddings |-> res.embeddings,
                   calls |-> calls + res.calls]
             ELSE TokenLoopCarry(texts, api_tokens, j + 1, fail,
                                 res.embeddings, calls + res.calls)

RECURSIVE TokenLoopNoRaise(_, _, _, _, _, _)
\* mutant of TokenLoop: exhaustion returns what was gathered, no raise
TokenLoopNoRaise(texts, api_tokens, j, fail, embeddings, calls) ==
    IF j > Len(api_tokens)
    THEN [ok |-> TRUE, embeddings |-> embeddings, calls |-> calls]
    ELSE IF ~api_tokens[j]
    THEN TokenLoopNoRaise(texts, api_tokens, j + 1, fail, embeddings, calls)
    ELSE LET res == FeatureLoop(texts, 1, <<>>, fail[j])
         IN  IF res.ok
             THEN [ok |-> TRUE, embeddings |-> res.embeddings,
                   calls |-> calls + res.calls]
             ELSE TokenLoopNoRaise(texts, api_tokens, j + 1, fail,
                                   res.embeddings, calls + res.calls)

RECURSIVE TokenLoop(_, _, _, _, _, _)
\* the loop over api_tokens; ok = FALSE is the final raise
TokenLoop(texts, api_tokens, j, fail, embeddings, calls) ==
    IF j > Len(api_tokens)
    THEN [ok |-> FALSE, embeddings |-> <<>>, calls |-> calls]
    ELSE IF ~api_tokens[j]
    THEN TokenLoop(texts, api_tokens, j + 1, fail, embeddings, calls)
    ELSE LET res == FeatureLoop(texts, 1, <<>>, fail[j])
         IN  IF res.ok
             THEN [ok |-> TRUE, embeddings |-> res.embeddings,
                   calls |-> calls + res.calls]
             ELSE TokenLoop(texts, api_tokens, j + 1, fail,
                            res.embeddings, calls + res.calls)

\* the environment: every token that is set fails at one of the n texts
AllTokensFail(tokens, n, fail) ==
    \A j \in 1..Len(ApiTokens(tokens)) : ApiTokens(tokens)[j] => fail[j] \in 1..n

get_text_embeddings(texts, tokens, fail) ==
    TokenLoop(texts, ApiTokens(tokens), 1, fail, <<>>, 0)

\* ------------------------------------------------------------ the store
\* mutant of BlobExists: the existence check is skipped
BlobExistsAlways(blob) == TRUE

\* blob_client.exists()
BlobExists(blob) == blob.exists

\* mutant of InsertOne: the write replaces the content of the collection
InsertOneFresh(coll, doc) == {doc}

\* one document of insert_many is written
InsertOne(coll, doc) == coll \cup {doc}

\* coll.find({'_id': {'$in': ids}}, {'_id': 1}) as a set of identifiers
FindIds(coll, ids) == {doc._id : doc \in {d \in coll : d._id \in Range(ids)}}

\* mutant of DuplicateKey: the unique index is on (_id, text)
DuplicateKeyCompound(coll, doc) ==
    \E d \in coll : d._id = doc._id /\ d.text = doc.text

\* mutant of DuplicateKey: no unique index rejects the document
DuplicateKeyNever(coll, doc) == FALSE

\* the unique index on _id
DuplicateKey(coll, doc) == \E d \in coll : d._id = doc._id

\* ------------------------------------------- embedding_pipeline_blob.py
\* mutant of ValidChunks: the elements are not checked
ValidChunksListOnly(json) == json.isList

\* isinstance(chunks, list) and every element a str
ValidChunks(json) ==
    /\ json.isList
    /\ \A i \in 1..Len(json.elems) : json.elems[i].isStr

RECURSIVE FilterKeepsExisting(_, _, _, _)
\* mutant of Filter: `in` for `not in`
FilterKeepsExisting(items, ids, existing, i) ==
    IF i > Len(items) THEN <<>>
    ELSE (IF ids[i] \in existing THEN <<items[i]>> ELSE <<>>)
         \o FilterKeepsExisting(items, ids, existing, i + 1)

RECURSIVE Filter(_, _, _, _)
\* [x for i, x in enumerate(items) if ids[i] not in existing]
Filter(items, ids, existing, i) ==
    IF i > Len(items) THEN <<>>
    ELSE (IF ids[i] \notin existing THEN <<items[i]>> ELSE <<>>)
         \o Filter(items, ids, existing, i + 1)

TextIdsToCheck(chunks) == [i \in 1..Len(chunks) |-> ChunkId(i)]

NewChunks(chunks, existing_ids) ==
    Filter(chunks, TextIdsToCheck(chunks), existing_ids, 1)

\* mutant of TextDocuments: the identifier is 0-based (`i` for `i+1`)
TextDocumentsZeroBased(embeddings, new_chunks) ==
    [i \in 1..Min(Len(embeddings), Len(new_chunks)) |->
        [_id |-> ChunkId(i - 1),
         embedding |-> embeddings[i],
         metadata |-> [pdf_id |-> pdf_id, source |-> chunks_blob_name],
         text |-> new_chunks[i]]]

\* zip(embeddings, new_chunks) with enumerate: the identifier is built
\* from the position in new_chunks
TextDocuments(embeddings, new_chunks) ==
    [i \in 1..Min(Len(embeddings), Len(new_chunks)) |->
        [_id |-> ChunkId(i),
         embedding |-> embeddings[i],
         metadata |-> [pdf_id |-> pdf_id, source |-> chunks_blob_name],
         text |-> new_chunks[i]]]

ImageIdsToCheck(reader) == [i \in 1..Len(reader) |-> ImageId(reader[i].image_name)]

NewCaptionsData(reader, existing_ids) ==
    Filter(reader, ImageIdsToCheck(reader), existing_ids, 1)

Captions(new_captions_data) ==
    [i \in 1..Len(new_captions_data) |-> new_captions_data[i].caption]

ImageDocuments(new_captions_data, embeddings, captions) ==
    [i \in 1..Min(Len(new_captions_data), Min(Len(embeddings), Len(captions))) |->
        [_id |-> ImageId(new_captions_data[i].image_name),
         embedding |-> embeddings[i],
         metadata |-> [pdf_id |-> pdf_id, source |-> captions_blob_name],
         text |-> captions[i]]]

\* mutant of NothingNew: the empty batch is not short-circuited
NothingNewNever(new) == FALSE

\* `if not new_chunks:` / `if not new_captions_data:`
NothingNew(new) == new = <<>>

\* ------------------------------------------------------ text_extractor.py
\* Characters are code points; a string is a sequence of them.
SPACE == 32

\* a printable word, a word of one character outside \x20-\x7E, a mixed one
WordKinds == {<<97>>, <<233>>, <<97, 233>>}

WordSeqs == UNION {[1..n -> WordKinds] : n \in 0..MaxWords}

Sizes == (0 - MaxSize)..MaxSize

Max(a, b) == IF a > b THEN a ELSE b

\* the characters kept by re.sub(r'[^\x20-\x7E\n\r\t]', '', text)
Printable(c) == (c >= 32 /\ c <= 126) \/ c \in {9, 10, 13}

\* the characters of \s and of str.strip()
Whitespace(c) == c \in {9, 10, 11, 12, 13, 32}

\* words[start:stop] of a list of n words, as the 1-based positions taken
PySlice(n, start, stop) ==
    LET norm(x) == IF x < 0 THEN Max(x + n, 0) ELSE Min(x, n)
        lo == norm(start)
        hi == norm(stop)
    IN  [k \in 1..Max(hi - lo, 0) |-> lo + k]

RECURSIVE Join(_)
\* ' '.join(chunk)
Join(ws) ==
    IF ws = <<>> THEN <<>>
    ELSE IF Len(ws) = 1 THEN ws[1]
    ELSE ws[1] \o <<SPACE>> \o Join(Tail(ws))

RemoveNonPrintable(text) == SelectSeq(text, Printable)

RECURSIVE CollapseWhitespace(_)
\* re.sub(r'\s+', ' ', text)
CollapseWhitespace(text) ==
    IF text = <<>> THEN <<>>
    ELSE IF Whitespace(text[1])
    THEN IF Len(text) > 1 /\ Whitespace(text[2])
         THEN CollapseWhitespace(Tail(text))
         ELSE <<SPACE>> \o CollapseWhitespace(Tail(text))
    ELSE <<text[1]>> \o CollapseWhitespace(Tail(text))

RECURSIVE LStrip(_)
LStrip(text) ==
    IF text # <<>> /\ Whitespace(text[1]) THEN LStrip(Tail(text)) ELSE text

RECURSIVE RStrip(_)
RStrip(text) ==
    IF text # <<>> /\ Whitespace(text[Len(text)])
    THEN RStrip(SubSeq(text, 1, Len(text) - 1))
    ELSE text

\* str.strip()
Strip(text) == LStrip(RStrip(text))

preprocess_text(text) == Strip(CollapseWhitespace(RemoveNonPrintable(text)))

\* the condition of the comprehension of extract_text: if chunk.strip()
KeepChunk(chunk) == Strip(chunk) # <<>>

RECURSIVE PreprocessedChunks(_)
\* [preprocess_text(chunk) for chunk in chunks if chunk.strip()]
PreprocessedChunks(cs) ==
    IF cs = <<>> THEN <<>>
    ELSE IF KeepChunk(cs[1])
    THEN <<preprocess_text(cs[1])>> \o PreprocessedChunks(Tail(cs))
    ELSE PreprocessedChunks(Tail(cs))

\* ---------------------------------------------------------------- state
VARIABLES
    chunks_blob,        \* the chunks artifact of the document
    captions_blob,      \* the captions artifact of the document
    env,                \* the token settings of the function app
    text_coll,          \* db["textEmbeddings"], a set of documents
    img_coll,           \* db["imageEmbeddings"], a set of documents
    pc,                 \* per run: where the invocation is
    items,              \* per run: chunks, then the rows of the reader
    new_items,          \* per run: new_chunks, then new_captions_data
    documents,          \* per run and lane: the batch given to insert_many
    done,               \* per run: documents of the batch already written
    raised,             \* per run: the exception that left the function
    raised_in,          \* per run: the lane that raised
    seen,               \* per run and lane: collection at the find
    embed_calls,        \* per run and lane: calls of get_text_embeddings
    hf_calls,           \* per run and lane: calls of feature_extraction
    insert_calls,       \* per run and lane: calls of insert_many
    inserted,           \* per run and lane: documents written by the run
    exhausted,          \* per run and lane: every configured token failed
    before,             \* per run: where the other runs were when it started
    words,              \* chunk_text: text.split()
    chunk_size,         \* chunk_text: the window length asked for
    overlap,            \* chunk_text: the overlap asked for
    tpc,                \* where extract_text is
    ci,                 \* chunk_text: i
    text_chunks,        \* chunk_text: chunks
    spans,              \* per chunk: the positions of words it was cut from
    persisted,          \* the list written to <pdf_name>_chunks.json
    container,          \* generate_embeddings: the artifacts under extracted_data
    settings,           \* generate_embeddings: MONGO_URI, storage1rag_STORAGE set
    bpc,                \* where generate_embeddings is
    http_status,        \* generate_embeddings: status of the response, 0 before
    responses,          \* generate_image_caption: the answer to each key
    cpc,                \* where generate_image_caption is
    key,                \* generate_image_caption: position in the key tuple
    tried,              \* generate_image_caption: keys posted, in order
    caption,            \* generate_image_caption: the value returned
    images,             \* extract_images_and_caption: the images of the pages read
    ipc,                \* where extract_images_and_caption is
    img_i,              \* extract_images_and_caption: position in the images
    caption_rows,       \* extract_images_and_caption: captions
    csv                 \* the rows written to <pdf_name>_captions.csv

vars == <<chunks_blob, captions_blob, env, text_coll, img_coll, pc, items,
          new_items, documents, done, raised, raised_in, seen, embed_calls,
          hf_calls, insert_calls, inserted, exhausted, before,
          words, chunk_size, overlap, tpc, ci, text_chunks, spans, persisted,
          container, settings, bpc, http_status,
          responses, cpc, key, tried, caption,
          images, ipc, img_i, caption_rows, csv>>

imgvars == <<images, ipc, img_i, caption_rows, csv>>

bulkvars == <<container, settings, bpc, http_status>>

capvars == <<responses, cpc, key, tried, caption>>

textvars == <<words, chunk_size, overlap, tpc, ci, text_chunks, spans, persisted>>

pipevars == <<chunks_blob, captions_blob, env, text_coll, img_coll, pc, items,
              new_items, documents, done, raised, raised_in, seen, embed_calls,
              hf_calls, insert_calls, inserted, exhausted, before>>

\* what no step of process_single_pdf_embeddings writes
shared == <<chunks_blob, captions_blob, env, textvars, bulkvars, capvars,
            imgvars>>

\* extract_text is not running
TextOff ==
    /\ words = <<>>
    /\ chunk_size = 0
    /\ overlap = 0
    /\ tpc = "off"
    /\ ci = 0
    /\ text_chunks = <<>>
    /\ spans = <<>>
    /\ persisted = <<>>

\* no request to generate_embeddings
BulkOff ==
    /\ container = <<>>
    /\ settings = [mongo_uri |-> FALSE, storage |-> FALSE]
    /\ bpc = "off"
    /\ http_status = 0

\* generate_image_caption is not running
CaptionOff ==
    /\ responses = <<>>
    /\ cpc = "off"
    /\ key = 0
    /\ tried = <<>>
    /\ caption = [kind |-> "none"]

\* extract_images_and_caption is not running
ImagesOff ==
    /\ images = <<>>
    /\ ipc = "off"
    /\ img_i = 0
    /\ caption_rows = <<>>
    /\ csv = <<>>

\* empty collections, no invocation of process_single_pdf_embeddings yet
RunsClear ==
    /\ text_coll = {}
    /\ img_coll = {}
    /\ items = [r \in Runs |-> <<>>]
    /\ new_items = [r \in Runs |-> <<>>]
    /\ documents = [r \in Runs |-> [l \in Lanes |-> <<>>]]
    /\ done = [r \in Runs |-> 0]
    /\ raised = [r \in Runs |-> "none"]
    /\ raised_in = [r \in Runs |-> "none"]
    /\ seen = [r \in Runs |-> [l \in Lanes |-> {}]]
    /\ embed_calls = [r \in Runs |-> [l \in Lanes |-> 0]]
    /\ hf_calls = [r \in Runs |-> [l \in Lanes |-> 0]]
    /\ insert_calls = [r \in Runs |-> [l \in Lanes |-> 0]]
    /\ inserted = [r \in Runs |-> [l \in Lanes |-> {}]]
    /\ exhausted = [r \in Runs |-> [l \in Lanes |-> FALSE]]
    /\ before = [r \in Runs |-> [q \in Runs |-> "idle"]]

NoRunStarted ==
    /\ pc = [r \in Runs |-> "idle"]
    /\ RunsClear

Init ==
    /\ chunks_blob \in ChunksBlobs
    /\ captions_blob \in CaptionsBlobs
    /\ env \in TokenSettings
    /\ NoRunStarted
    /\ TextOff
    /\ BulkOff
    /\ CaptionOff
    /\ ImagesOff

\* the exception leaves process_single_pdf_embeddings (except ... raise)
Raise(r, lane, what) ==
    /\ pc' = [pc EXCEPT ![r] = "raised"]
    /\ raised' = [raised EXCEPT ![r] = what]
    /\ raised_in' = [raised_in EXCEPT ![r] = lane]

NoRaise == UNCHANGED <<raised, raised_in>>

\* --------------------------------------------------------- the text lane
\* chunks blob: exists / download / validate / find / filter
TextResolve(r) ==
    /\ pc[r] = "idle"
    /\ before' = [before EXCEPT ![r] = pc]
    /\ UNCHANGED <<shared, text_coll, img_coll, documents, done, embed_calls,
                   hf_calls, insert_calls, inserted, exhausted>>
    /\ IF ~BlobExists(chunks_blob)
       THEN /\ pc' = [pc EXCEPT ![r] = "image"]
            /\ NoRaise
            /\ UNCHANGED <<items, new_items, seen>>
       ELSE IF ~ValidChunks(chunks_blob)
       THEN /\ Raise(r, "text", "ValueError")
            /\ UNCHANGED <<items, new_items, seen>>
       ELSE LET chunks == [i \in 1..Len(chunks_blob.elems) |-> chunks_blob.elems[i].val]
                existing_ids == FindIds(text_coll, TextIdsToCheck(chunks))
                new_chunks == NewChunks(chunks, existing_ids)
            IN  /\ items' = [items EXCEPT ![r] = chunks]
                /\ new_items' = [new_items EXCEPT ![r] = new_chunks]
                /\ seen' = [seen EXCEPT ![r]["text"] = text_coll]
                /\ pc' = [pc EXCEPT ![r] = IF NothingNew(new_chunks) THEN "image"
                                           ELSE "text_embed"]
                /\ NoRaise

\* get_text_embeddings(new_chunks) and the construction of the documents
TextEmbed(r) ==
    /\ pc[r] = "text_embed"
    /\ \E f1 \in 0..Len(new_items[r]), f2 \in 0..Len(new_items[r]) :
         LET res == get_text_embeddings(new_items[r], env, <<f1, f2>>)
         IN  /\ embed_calls' = [embed_calls EXCEPT ![r]["text"] = @ + 1]
             /\ hf_calls' = [hf_calls EXCEPT ![r]["text"] = @ + res.calls]
             /\ exhausted' = [exhausted EXCEPT ![r]["text"] =
                                AllTokensFail(env, Len(new_items[r]), <<f1, f2>>)]
             /\ IF res.ok
                THEN /\ documents' = [documents EXCEPT ![r]["text"] =
                                        TextDocuments(res.embeddings, new_items[r])]
                     /\ pc' = [pc EXCEPT ![r] = "text_insert"]
                     /\ NoRaise
                ELSE /\ Raise(r, "text", "EmbeddingError")
                     /\ UNCHANGED documents
    /\ UNCHANGED <<shared, text_coll, img_coll, items, new_items, done, seen,
                   insert_calls, inserted, before>>

\* text_coll.insert_many(documents), ordered: the next document of the batch
TextInsert(r) ==
    /\ pc[r] = "text_insert"
    /\ LET doc == documents[r]["text"][done[r] + 1]
       IN  /\ insert_calls' = [insert_calls EXCEPT ![r]["text"] = 1]
           /\ IF documents[r]["text"] = <<>>
              THEN \* pymongo: documents must be a non-empty list
                   /\ Raise(r, "text", "InvalidOperation")
                   /\ UNCHANGED <<text_coll, done, inserted>>
              ELSE IF DuplicateKey(text_coll, doc)
              THEN /\ Raise(r, "text", "BulkWriteError")
                   /\ UNCHANGED <<text_coll, done, inserted>>
              ELSE /\ text_coll' = InsertOne(text_coll, doc)
                   /\ inserted' = [inserted EXCEPT ![r]["text"] = @ \cup {doc}]
                   /\ IF done[r] + 1 = Len(documents[r]["text"])
                      THEN /\ pc' = [pc EXCEPT ![r] = "image"]
                           /\ done' = [done EXCEPT ![r] = 0]
                      ELSE /\ pc' = pc
                           /\ done' = [done EXCEPT ![r] = @ + 1]
                   /\ NoRaise
    /\ UNCHANGED <<shared, img_coll, items, new_items, documents, seen,
                   embed_calls, hf_calls, exhausted, before>>

\* the store fails during insert_many (connection lost, write error)
TextInsertFails(r) ==
    /\ pc[r] = "text_insert"
    /\ insert_calls' = [insert_calls EXCEPT ![r]["text"] = 1]
    /\ Raise(r, "text", "StoreError")
    /\ UNCHANGED <<shared, text_coll, img_coll, items, new_items, documents,
                   done, seen, embed_calls, hf_calls, inserted, exhausted,
                   before>>

\* -------------------------------------------------------- the image lane
\* captions blob: exists / download / DictReader / find / filter
ImageResolve(r) ==
    /\ pc[r] = "image"
    /\ UNCHANGED <<shared, text_coll, img_coll, documents, done, embed_calls,
                   hf_calls, insert_calls, inserted, exhausted, before, raised, raised_in>>
    /\ IF ~BlobExists(captions_blob)
       THEN /\ pc' = [pc EXCEPT ![r] = "returned"]
            /\ UNCHANGED <<items, new_items, seen>>
       ELSE LET reader == captions_blob.rows
                existing_ids == FindIds(img_coll, ImageIdsToCheck(reader))
                new_captions_data == NewCaptionsData(reader, existing_ids)
            IN  /\ items' = [items EXCEPT ![r] = reader]
                /\ new_items' = [new_items EXCEPT ![r] = new_captions_data]
                /\ seen' = [seen EXCEPT ![r]["image"] = img_coll]
                /\ pc' = [pc EXCEPT ![r] = IF NothingNew(new_captions_data)
                                           THEN "returned" ELSE "image_embed"]

\* get_text_embeddings(captions) and the construction of the documents
ImageEmbed(r) ==
    /\ pc[r] = "image_embed"
    /\ \E f1 \in 0..Len(new_items[r]), f2 \in 0..Len(new_items[r]) :
         LET captions == Captions(new_items[r])
             res == get_text_embeddings(captions, env, <<f1, f2>>)
         IN  /\ embed_calls' = [embed_calls EXCEPT ![r]["image"] = @ + 1]
             /\ hf_calls' = [hf_calls EXCEPT ![r]["image"] = @ + res.calls]
             /\ exhausted' = [exhausted EXCEPT ![r]["image"] =
                                AllTokensFail(env, Len(new_items[r]), <<f1, f2>>)]
             /\ IF res.ok
                THEN /\ documents' = [documents EXCEPT ![r]["image"] =
                                        ImageDocuments(new_items[r], res.embeddings, captions)]
                     /\ pc' = [pc EXCEPT ![r] = "image_insert"]
                     /\ NoRaise
                ELSE /\ Raise(r, "image", "EmbeddingError")
                     /\ UNCHANGED documents
    /\ UNCHANGED <<shared, text_coll, img_coll, items, new_items, done, seen,
                   insert_calls, inserted, before>>

\* img_coll.insert_many(documents), ordered: the next document of the batch
ImageInsert(r) ==
    /\ pc[r] = "image_insert"
    /\ LET doc == documents[r]["image"][done[r] + 1]
       IN  /\ insert_calls' = [insert_calls EXCEPT ![r]["image"] = 1]
           /\ IF documents[r]["image"] = <<>>
              THEN \* pymongo: documents must be a non-empty list
                   /\ Raise(r, "image", "InvalidOperation")
                   /\ UNCHANGED <<img_coll, done, inserted>>
              ELSE IF DuplicateKey(img_coll, doc)
              THEN /\ Raise(r, "image", "BulkWriteError")
                   /\ UNCHANGED <<img_coll, done, inserted>>
              ELSE /\ img_coll' = InsertOne(img_coll, doc)
                   /\ inserted' = [inserted EXCEPT ![r]["image"] = @ \cup {doc}]
                   /\ IF done[r] + 1 = Len(documents[r]["image"])
                      THEN /\ pc' = [pc EXCEPT ![r] = "returned"]
                           /\ done' = [done EXCEPT ![r] = 0]
                      ELSE /\ pc' = pc
                           /\ done' = [done EXCEPT ![r] = @ + 1]
                   /\ NoRaise
    /\ UNCHANGED <<shared, text_coll, items, new_items, documents, seen,
                   embed_calls, hf_calls, exhausted, before>>

\* the store fails during insert_many (connection lost, write error)
ImageInsertFails(r) ==
    /\ pc[r] = "image_insert"
    /\ insert_calls' = [insert_calls EXCEPT ![r]["image"] = 1]
    /\ Raise(r, "image", "StoreError")
    /\ UNCHANGED <<shared, text_coll, img_coll, items, new_items, documents,
                   done, seen, embed_calls, hf_calls, inserted, exhausted,
                   before>>

Next ==
    \E r \in Runs :
        \/ TextResolve(r)
        \/ TextEmbed(r)
        \/ TextInsert(r)
        \/ TextInsertFails(r)
        \/ ImageResolve(r)
        \/ ImageEmbed(r)
        \/ ImageInsert(r)
        \/ ImageInsertFails(r)

Spec == Init /\ [][Next]_vars

\* ------------------------------------------- text_extractor.extract_text
\* the embedding pipeline is not part of extract_text
PipelineOff ==
    /\ chunks_blob = MissingChunks
    /\ captions_blob = MissingCaptions
    /\ env = [t1 |-> FALSE, t2 |-> FALSE]
    /\ NoRunStarted

InitText ==
    /\ PipelineOff
    /\ words \in WordSeqs
    /\ chunk_size \in Sizes
    /\ overlap \in Sizes
    /\ BulkOff
    /\ CaptionOff
    /\ ImagesOff
    /\ tpc = "call"
    /\ ci = 0
    /\ text_chunks = <<>>
    /\ spans = <<>>
    /\ persisted = <<>>

\* mutant of Advance: the window moves by its full length
AdvanceNoOverlap(i, size, ov) == i + size

\* i += chunk_size - overlap
Advance(i, size, ov) == i + size - ov

\* chunk_text up to the loop: the parameters are checked
ChunkTextCall ==
    /\ tpc = "call"
    /\ tpc' = IF chunk_size <= overlap THEN "failed" ELSE "loop"
    /\ UNCHANGED <<pipevars, bulkvars, capvars, imgvars, words, chunk_size, overlap, ci, text_chunks,
                   spans, persisted>>

\* one iteration of the while loop that appends a chunk
ChunkTextLoop ==
    /\ tpc = "loop"
    /\ ci < Len(words)
    /\ LET span == PySlice(Len(words), ci, ci + chunk_size)
           chunk == [k \in 1..Len(span) |-> words[span[k]]]
       IN  IF chunk = <<>>
           THEN /\ tpc' = "chunked"
                /\ UNCHANGED <<ci, text_chunks, spans>>
           ELSE /\ text_chunks' = Append(text_chunks, Join(chunk))
                /\ spans' = Append(spans, span)
                /\ ci' = Advance(ci, chunk_size, overlap)
                /\ tpc' = tpc
    /\ UNCHANGED <<pipevars, bulkvars, capvars, imgvars, words, chunk_size, overlap, persisted>>

\* the loop condition fails: return chunks
ChunkTextReturn ==
    /\ tpc = "loop"
    /\ ~(ci < Len(words))
    /\ tpc' = "chunked"
    /\ UNCHANGED <<pipevars, bulkvars, capvars, imgvars, words, chunk_size, overlap, ci, text_chunks,
                   spans, persisted>>

\* extract_text filters, preprocesses and dumps the chunks
ExtractTextPersist ==
    /\ tpc = "chunked"
    /\ persisted' = PreprocessedChunks(text_chunks)
    /\ tpc' = "persisted"
    /\ UNCHANGED <<pipevars, bulkvars, capvars, imgvars, words, chunk_size, overlap, ci, text_chunks, spans>>

NextText ==
    \/ ChunkTextCall
    \/ ChunkTextLoop
    \/ ChunkTextReturn
    \/ ExtractTextPersist

SpecText == InitText /\ [][NextText]_vars

\* ------------------------------------------ function_app.generate_embeddings
\* the documents process_pdf_function has uploaded
Docs == {"a", "b"}

\* blob_folder_prefix of process_pdf_function for a document
FolderOf(d) == <<"extracted_data", d>>

\* f"{pdf_blob_prefix}/{pdf_id}_chunks.json" for any prefix
ChunksBlobNameOf(prefix) == prefix \o <<Basename(prefix), "_chunks.json">>

\* f"{pdf_blob_prefix}/images/{pdf_id}_captions.csv" for any prefix
CaptionsBlobNameOf(prefix) ==
    prefix \o <<"images", Basename(prefix), "_captions.csv">>

Containers == [Docs -> [chunks : ChunksBlobs, captions : CaptionsBlobs]]

\* get_blob_client(name) on a container filled by upload_folder_to_blob
ChunksAt(c, name) ==
    IF \E d \in Docs : name = ChunksBlobNameOf(FolderOf(d))
    THEN c[CHOOSE d \in Docs : name = ChunksBlobNameOf(FolderOf(d))].chunks
    ELSE MissingChunks

CaptionsAt(c, name) ==
    IF \E d \in Docs : name = CaptionsBlobNameOf(FolderOf(d))
    THEN c[CHOOSE d \in Docs : name = CaptionsBlobNameOf(FolderOf(d))].captions
    ELSE MissingCaptions

\* blob_prefix = "extracted_data"
blob_prefix == <<"extracted_data">>

InitBulk ==
    /\ chunks_blob = MissingChunks
    /\ captions_blob = MissingCaptions
    /\ env \in TokenSettings
    /\ pc = [r \in Runs |-> "uncalled"]
    /\ RunsClear
    /\ TextOff
    /\ CaptionOff
    /\ ImagesOff
    /\ container \in Containers
    /\ settings \in [mongo_uri : BOOLEAN, storage : BOOLEAN]
    /\ bpc = "request"
    /\ http_status = 0

\* generate_embeddings up to the call of process_single_pdf_embeddings,
\* which opens the blobs named after blob_prefix
GenerateEmbeddingsCall ==
    /\ bpc = "request"
    /\ IF ~settings.mongo_uri \/ ~settings.storage
       THEN /\ http_status' = 400
            /\ bpc' = "responded"
            /\ UNCHANGED <<chunks_blob, captions_blob, pc>>
       ELSE /\ chunks_blob' = ChunksAt(container, ChunksBlobNameOf(blob_prefix))
            /\ captions_blob' = CaptionsAt(container, CaptionsBlobNameOf(blob_prefix))
            /\ pc' = [pc EXCEPT ![1] = "idle"]
            /\ bpc' = "running"
            /\ UNCHANGED http_status
    /\ UNCHANGED <<env, text_coll, img_coll, items, new_items, documents, done,
                   raised, raised_in, seen, embed_calls, hf_calls, insert_calls,
                   inserted, exhausted, before, textvars, capvars, imgvars,
                   container,
                   settings>>

\* the call has returned (200) or raised (500)
GenerateEmbeddingsRespond ==
    /\ bpc = "running"
    /\ pc[1] \in {"returned", "raised"}
    /\ http_status' = IF pc[1] = "returned" THEN 200 ELSE 500
    /\ bpc' = "responded"
    /\ UNCHANGED <<pipevars, textvars, capvars, imgvars, container, settings>>

\* The one run of the request is run 1. Neither blob name built from
\* blob_prefix is a name upload_folder_to_blob writes, so the run takes
\* the two skip branches and no other step of it is enabled.
NextBulk ==
    \/ GenerateEmbeddingsCall
    \/ TextResolve(1)
    \/ ImageResolve(1)
    \/ GenerateEmbeddingsRespond

SpecBulk == InitBulk /\ [][NextBulk]_vars

\* ------------------------------------------------------ image_caption.py
\* (API_KEY_1, API_KEY_2), by position
API_KEYS == <<1, 2>>

Statuses == {200, 400, 401, 403, 429, 500}

\* result["candidates"][0]["content"]["parts"][0]["text"] of a body of the
\* API: the text, or a missing key, or an empty list
Lookups == {"text", "KeyError", "IndexError"}

\* what requests.post does for a key: it raises, or it returns a response
Responses ==
    {[raises |-> TRUE, status |-> 0, lookup |-> "none"]}
    \cup [raises : {FALSE}, status : Statuses, lookup : Lookups]

\* mutant of RetryStatuses: a server error also moves to the next key
RetryStatusesWithServerError == {401, 403, 429, 500}

\* the statuses on which the loop continues with the next key
RetryStatuses == {401, 403, 429}

\* the values generate_image_caption returns
CaptionText(k) == [kind |-> "caption", status |-> 200, from |-> k]

NoCaptionGenerated == [kind |-> "No caption generated.", status |-> 200, from |-> 0]

ErrorCaption(status, k) == [kind |-> "Error", status |-> status, from |-> k]

AllKeysFailed(status, k) ==
    [kind |-> "Error: All API keys failed", status |-> status, from |-> k]

InitCaption ==
    /\ PipelineOff
    /\ TextOff
    /\ BulkOff
    /\ ImagesOff
    /\ responses \in [1..Len(API_KEYS) -> Responses]
    /\ cpc = "loop"
    /\ key = 1
    /\ tried = <<>>
    /\ caption = [kind |-> "none"]

\* one iteration of the loop over the keys
GenerateImageCaptionPost ==
    /\ cpc = "loop"
    /\ key <= Len(API_KEYS)
    /\ tried' = Append(tried, API_KEYS[key])
    /\ LET response == responses[key]
       IN  IF response.raises
           THEN /\ cpc' = "raised"
                /\ UNCHANGED <<key, caption>>
           ELSE IF response.status = 200
           THEN /\ caption' = IF response.lookup = "text"
                               THEN CaptionText(key)
                               ELSE NoCaptionGenerated
                /\ cpc' = "returned"
                /\ UNCHANGED key
           ELSE IF response.status \in RetryStatuses
           THEN /\ key' = key + 1
                /\ UNCHANGED <<cpc, caption>>
           ELSE /\ caption' = ErrorCaption(response.status, key)
                /\ cpc' = "returned"
                /\ UNCHANGED key
    /\ UNCHANGED <<pipevars, textvars, bulkvars, imgvars, responses>>

\* the loop is over: the last response is reported
GenerateImageCaptionAllFailed ==
    /\ cpc = "loop"
    /\ key > Len(API_KEYS)
    /\ caption' = AllKeysFailed(responses[Len(API_KEYS)].status, Len(API_KEYS))
    /\ cpc' = "returned"
    /\ UNCHANGED <<pipevars, textvars, bulkvars, imgvars, responses, key, tried>>

NextCaption ==
    \/ GenerateImageCaptionPost
    \/ GenerateImageCaptionAllFailed

SpecCaption == InitCaption /\ [][NextCaption]_vars

\* ---------------------------------------------------- image_extractor.py
\* most images on the pages read
MaxImages == 2

RECURSIVE CaptionLoop(_, _)
\* generate_image_caption as a function of the answers to its keys: the
\* loop from key k on; raised when a post raises
CaptionLoop(resps, k) ==
    IF k > Len(API_KEYS)
    THEN [raised |-> FALSE,
          caption |-> AllKeysFailed(resps[Len(API_KEYS)].status, Len(API_KEYS))]
    ELSE IF resps[k].raises
    THEN [raised |-> TRUE, caption |-> [kind |-> "none"]]
    ELSE IF resps[k].status = 200
    THEN [raised |-> FALSE,
          caption |-> IF resps[k].lookup = "text" THEN CaptionText(k)
                                                  ELSE NoCaptionGenerated]
    ELSE IF resps[k].status \in RetryStatuses
    THEN CaptionLoop(resps, k + 1)
    ELSE [raised |-> FALSE, caption |-> ErrorCaption(resps[k].status, k)]

generate_image_caption(resps) == CaptionLoop(resps, 1)

\* everything a call of generate_image_caption can end with
CaptionOutcomes ==
    {generate_image_caption(resps) : resps \in [1..Len(API_KEYS) -> Responses]}

\* An image of the pages read: extract_image or the write of the file
\* raises (broken) or not, its width and height reach min_width and
\* min_height or not, and what captioning it ends with.
NoOutcome == [raised |-> FALSE, caption |-> [kind |-> "none"]]

Images ==
    [broken : {TRUE}, wide : {FALSE}, high : {FALSE}, outcome : {NoOutcome}]
    \cup {img \in [broken : {FALSE}, wide : BOOLEAN, high : BOOLEAN,
                   outcome : {NoOutcome}] : ~img.wide \/ ~img.high}
    \cup [broken : {FALSE}, wide : {TRUE}, high : {TRUE}, outcome : CaptionOutcomes]

ImageSeqs == UNION {[1..n -> Images] : n \in 0..MaxImages}

\* caption = f"Error: {e}"
ExceptionCaption == [kind |-> "Error: {e}", status |-> 0, from |-> 0]

\* mutant of RowsFor: an image whose captioning raised gets no row
RowsForDropsRaised(image_filename, outcome) ==
    IF outcome.raised
    THEN <<>>
    ELSE <<[image_name |-> image_filename, caption |-> outcome.caption]>>

\* the try/except around generate_image_caption and the append
RowsFor(image_filename, outcome) ==
    <<[image_name |-> image_filename,
       caption |-> IF outcome.raised THEN ExceptionCaption ELSE outcome.caption]>>

InitImages ==
    /\ PipelineOff
    /\ TextOff
    /\ BulkOff
    /\ CaptionOff
    /\ images \in ImageSeqs
    /\ ipc = "loop"
    /\ img_i = 1
    /\ caption_rows = <<>>
    /\ csv = <<>>

\* one image of the loops over pages and images
ExtractImage ==
    /\ ipc = "loop"
    /\ img_i <= Len(images)
    /\ LET img == images[img_i]
       IN  IF img.broken
           THEN /\ ipc' = "raised"
                /\ UNCHANGED <<img_i, caption_rows>>
           ELSE IF ~img.wide \/ ~img.high
           THEN /\ img_i' = img_i + 1
                /\ UNCHANGED <<ipc, caption_rows>>
           ELSE /\ caption_rows' = caption_rows \o RowsFor(img_i, img.outcome)
                /\ img_i' = img_i + 1
                /\ UNCHANGED ipc
    /\ UNCHANGED <<pipevars, textvars, bulkvars, capvars, images, csv>>

\* after the loops: the rows are written
WriteCaptionsCsv ==
    /\ ipc = "loop"
    /\ img_i > Len(images)
    /\ csv' = caption_rows
    /\ ipc' = "written"
    /\ UNCHANGED <<pipevars, textvars, bulkvars, capvars, images, img_i,
                   caption_rows>>

NextImages ==
    \/ ExtractImage
    \/ WriteCaptionsCsv

SpecImages == InitImages /\ [][NextImages]_vars

\* ------------------------------------------------- vocabulary of the claims
Ids(coll) == {d._id : d \in coll}

Coll(lane) == IF lane = "text" THEN text_coll ELSE img_coll

\* the identifiers of the document, per lane
DocTextIds ==
    IF chunks_blob.exists /\ ValidChunks(chunks_blob)
    THEN {ChunkId(k) : k \in 1..Len(chunks_blob.elems)}
    ELSE {}

DocImageIds ==
    {ImageId(captions_blob.rows[i].image_name) : i \in 1..Len(captions_blob.rows)}

DocIds(lane) == IF lane = "text" THEN DocTextIds ELSE DocImageIds

ExactlyOne(coll, id) == Cardinality({d \in coll : d._id = id}) = 1

AllEmbedded == \A l \in Lanes : \A id \in DocIds(l) : ExactlyOne(Coll(l), id)

Finished(r) == pc[r] \in {"returned", "raised"}

\* no other run overlaps run r: each was over when r started or has not started
Sequential(r) ==
    /\ pc[r] # "idle"
    /\ \A q \in Runs \ {r} : before[r][q] \in {"returned", "raised"} \/ pc[q] = "idle"

\* the items of `its` whose identifier is not in `present`, in order
KeptSeq(its, idOf, present) ==
    LET K == {k \in 1..Len(its) : idOf[k] \notin present}
        nth(j) == CHOOSE k \in K : Cardinality({m \in K : m <= k}) = j
    IN  [j \in 1..Cardinality(K) |-> its[nth(j)]]

\* run r holds the text lane's (image lane's) items and new items
TextView(r) ==
    \/ pc[r] \in {"text_embed", "text_insert", "image"}
    \/ pc[r] = "raised" /\ raised_in[r] = "text"

ImageView(r) ==
    /\ captions_blob.exists
    /\ \/ pc[r] \in {"image_embed", "image_insert", "returned"}
       \/ pc[r] = "raised" /\ raised_in[r] = "image"

\* ------------------------------------------------------------------- C1
\* C1: a run started after another run of the unchanged document has
\* returned normally inserts no record in either collection, and each
\* collection holds exactly one record per identifier of the document.
C1_SecondRunInsertsNothing ==
    \A r \in Runs :
        (\E q \in Runs : before[r][q] = "returned") =>
            /\ inserted[r]["text"] = {}
            /\ inserted[r]["image"] = {}
            /\ AllEmbedded

C1_Witness ==
    \E r \in Runs :
        /\ \E q \in Runs : before[r][q] = "returned"
        /\ pc[r] = "returned"
        /\ Cardinality(DocTextIds) >= 2
        /\ Cardinality(DocImageIds) >= 2
        /\ Ids(text_coll) = DocTextIds
        /\ Ids(img_coll) = DocImageIds

\* ------------------------------------------------------------------- C2
\* C2 (as claimed): a run that overlaps no other run and in which neither
\* the artifact is malformed, nor the embedding capability, nor the store
\* fails, returns normally and leaves every identifier of the document in
\* its collection exactly once, whatever subset the collection held.
C2_ConvergesFromPartialState ==
    \A r \in Runs :
        (/\ Sequential(r)
         /\ Finished(r)
         /\ raised[r] \notin {"ValueError", "EmbeddingError", "StoreError"}) =>
            /\ pc[r] = "returned"
            /\ AllEmbedded

\* ------------------------------------------------------------------- C3
\* C3 (as claimed): every document the text lane submits carries the
\* identifier of its own chunk (1-based index in the full chunk list), so
\* the submitted identifiers are exactly the missing ones.
C3_SubmittedIdsAreMissingIds ==
    \A r \in Runs :
        pc[r] = "text_insert" =>
            LET docs == documents[r]["text"]
                missing == {k \in 1..Len(items[r]) :
                               ChunkId(k) \notin Ids(seen[r]["text"])}
            IN  /\ {docs[i]._id : i \in 1..Len(docs)} = {ChunkId(k) : k \in missing}
                /\ \A i \in 1..Len(docs) :
                       \E k \in missing : /\ docs[i]._id = ChunkId(k)
                                          /\ docs[i].text = items[r][k]

\* ------------------------------------------------------------------- C4
\* C4 (as claimed): when two runs resolve a lane against the same
\* collection content before either inserts, the run whose insert hits a
\* duplicate key does not raise.
C4_DuplicateKeyAbsorbed ==
    \A r \in Runs : \A l \in Lanes :
        ~ /\ raised[r] = "BulkWriteError"
          /\ raised_in[r] = l
          /\ \E q \in Runs \ {r} : /\ documents[q][l] # <<>>
                                   /\ seen[q][l] = seen[r][l]

\* ------------------------------------------------------------------- C5
\* C5 (as claimed): a failure of the image lane leaves the text lane's
\* inserts in place, and a failure of the text lane does not keep the
\* image lane from running: image identifiers still missing from the
\* collection have been given to the embedding capability by that run.
C5_LanesIndependent ==
    \A r \in Runs :
        /\ raised_in[r] = "image" => inserted[r]["text"] \subseteq text_coll
        /\ raised_in[r] = "text" =>
              ((\E id \in DocImageIds : id \notin Ids(img_coll)) =>
                   embed_calls[r]["image"] > 0)

\* ------------------------------------------------------------------- C6
\* C6 (as claimed): once a lane's insert_many is over, the run has written
\* either every document of the batch or none of them.
C6_BulkInsertAllOrNothing ==
    \A r \in Runs : \A l \in Lanes :
        (insert_calls[r][l] > 0 /\ pc[r] # l \o "_insert") =>
            \/ inserted[r][l] = {}
            \/ inserted[r][l] = Range(documents[r][l])

\* ------------------------------------------------------------------- C7
\* C7: the items a lane keeps as new are exactly the candidates whose
\* identifier is absent from the collection at the time of the query.
C7_ResolverKeepsExactlyAbsent ==
    \A r \in Runs :
        /\ TextView(r) =>
              new_items[r] = KeptSeq(items[r],
                                     [k \in 1..Len(items[r]) |-> ChunkId(k)],
                                     Ids(seen[r]["text"]))
        /\ ImageView(r) =>
              new_items[r] = KeptSeq(items[r],
                                     [k \in 1..Len(items[r]) |->
                                         ImageId(items[r][k].image_name)],
                                     Ids(seen[r]["image"]))

C7_Witness ==
    \E r \in Runs :
        /\ pc[r] = "text_embed"
        /\ seen[r]["text"] # {}
        /\ new_items[r] # <<>>
        /\ Len(new_items[r]) < Len(items[r])

\* ------------------------------------------------------------------- C8
\* C8: a lane whose candidates all exist at the query (or that has no
\* candidates) calls neither the embedding capability nor insert_many and
\* writes nothing; without an overlapping run the collection is unchanged.
C8_EmptyBatchNoOp ==
    \A r \in Runs : \A l \in Lanes :
        DocIds(l) \subseteq Ids(seen[r][l]) =>
            /\ embed_calls[r][l] = 0
            /\ hf_calls[r][l] = 0
            /\ insert_calls[r][l] = 0
            /\ inserted[r][l] = {}
            /\ (Sequential(r) /\ DocIds(l) # {}) => Coll(l) = seen[r][l]

C8_Witness ==
    \E r \in Runs :
        /\ pc[r] = "returned"
        /\ \A l \in Lanes : /\ DocIds(l) # {}
                            /\ DocIds(l) \subseteq Ids(seen[r][l])
                            /\ embed_calls[r][l] = 0

\* ------------------------------------------------------------------- C9
\* C9: when every configured token fails, the run raises from that lane
\* and has written nothing for it; without an overlapping run the
\* collection holds exactly the records it held at the lane's query.
C9_EmbeddingFailureInsertsNothing ==
    \A r \in Runs : \A l \in Lanes :
        exhausted[r][l] =>
            /\ pc[r] = "raised"
            /\ raised[r] = "EmbeddingError"
            /\ raised_in[r] = l
            /\ insert_calls[r][l] = 0
            /\ inserted[r][l] = {}
            /\ Sequential(r) => Coll(l) = seen[r][l]

C9_Witness ==
    \E r \in Runs :
        /\ exhausted[r]["text"]
        /\ env.t1 /\ env.t2
        /\ hf_calls[r]["text"] >= 3
        /\ text_coll # {}

\* ------------------------------------------------------------------ C10
\* C10: the document built for new item i stores the item's text and the
\* vector the model produces for that text, one document per new item,
\* also when the first token failed part-way and the second was used.
C10_OrderPreserved ==
    \A r \in Runs :
        /\ pc[r] = "text_insert" =>
              /\ Len(documents[r]["text"]) = Len(new_items[r])
              /\ \A i \in 1..Len(new_items[r]) :
                    /\ documents[r]["text"][i].text = new_items[r][i]
                    /\ documents[r]["text"][i].embedding =
                           FeatureExtraction(new_items[r][i])
        /\ pc[r] = "image_insert" =>
              /\ Len(documents[r]["image"]) = Len(new_items[r])
              /\ \A i \in 1..Len(new_items[r]) :
                    /\ documents[r]["image"][i].text = new_items[r][i].caption
                    /\ documents[r]["image"][i].embedding =
                           FeatureExtraction(new_items[r][i].caption)

C10_Witness ==
    \E r \in Runs :
        /\ pc[r] = "text_insert"
        /\ Len(new_items[r]) >= 2
        /\ hf_calls[r]["text"] >= Len(new_items[r]) + 2

\* ------------------------------------------------------------------ C11
\* the chunks artifact exists and is not a list of strings
Malformed(blob) ==
    /\ blob.exists
    /\ \/ ~blob.isList
       \/ \E i \in 1..Len(blob.elems) : ~blob.elems[i].isStr

\* C11: with a chunks artifact that is not a list, or a list with a
\* non-string element, every started run has raised from the text lane
\* with no call of the embedding capability and no insert; the text
\* collection is unchanged.
C11_MalformedChunksFailBeforeEmbedding ==
    Malformed(chunks_blob) =>
        /\ text_coll = {}
        /\ \A r \in Runs :
              /\ embed_calls[r]["text"] = 0
              /\ hf_calls[r]["text"] = 0
              /\ insert_calls[r]["text"] = 0
              /\ inserted[r]["text"] = {}
              /\ pc[r] # "idle" => /\ pc[r] = "raised"
                                   /\ raised[r] = "ValueError"
                                   /\ raised_in[r] = "text"

C11_Witness ==
    /\ chunks_blob.exists
    /\ chunks_blob.isList
    /\ chunks_blob.elems # <<>>
    /\ \A r \in Runs : pc[r] = "raised"

\* ------------------------------------------------------------------ C12
\* C12: a missing chunks blob makes the text lane do nothing and the run
\* go on to the image lane (image identifiers still missing when the run
\* is over were given to the embedding capability); a missing captions
\* blob makes the image lane do nothing; neither lane raises for it.
C12_MissingArtifactIsSkip ==
    \A r \in Runs :
        /\ (~chunks_blob.exists /\ pc[r] # "idle") =>
              /\ embed_calls[r]["text"] = 0
              /\ insert_calls[r]["text"] = 0
              /\ inserted[r]["text"] = {}
              /\ raised_in[r] # "text"
              /\ (Finished(r) /\ \E id \in DocImageIds : id \notin Ids(img_coll)) =>
                     embed_calls[r]["image"] > 0
        /\ ~captions_blob.exists =>
              /\ embed_calls[r]["image"] = 0
              /\ insert_calls[r]["image"] = 0
              /\ inserted[r]["image"] = {}
              /\ raised_in[r] # "image"
        /\ (~chunks_blob.exists /\ ~captions_blob.exists) => pc[r] # "raised"

C12_Witness ==
    \E r \in Runs :
        /\ ~chunks_blob.exists
        /\ pc[r] = "returned"
        /\ inserted[r]["image"] # {}
        /\ Ids(img_coll) = DocImageIds

\* ------------------------------------------------------------------ C17
\* C17: no step of a run removes or changes a record of a collection:
\* what is in a collection before the step is in it, unchanged, after.
C17_InsertOnly ==
    [][/\ text_coll \subseteq text_coll'
       /\ img_coll \subseteq img_coll']_vars

C17_Witness ==
    \E r \in Runs : \E q \in Runs :
        /\ pc[r] = "raised"
        /\ seen[r]["text"] # {}
        /\ pc[q] = "returned"
        /\ inserted[q]["image"] # {}

\* ------------------------------------------------------------------ C18
\* C18: when both runs are over and neither met a malformed artifact, an
\* embedding failure or a store failure (duplicate keys are the only
\* errors), every identifier of the document has exactly one record.
C18_ConcurrentRunsConverge ==
    (\A r \in Runs : /\ Finished(r)
                     /\ raised[r] \in {"none", "BulkWriteError"}) =>
        AllEmbedded

C18_Witness ==
    /\ \A r \in Runs : Finished(r)
    /\ \E r \in Runs : raised[r] = "BulkWriteError" /\ raised_in[r] = "image"
    /\ \E r \in Runs : pc[r] = "returned"
    /\ Cardinality(DocTextIds) >= 2
    /\ Cardinality(DocImageIds) >= 2
    /\ AllEmbedded

Chunked == tpc \in {"chunked", "persisted"}

\* the start index of chunk k (1-based) in the word sequence
StartOf(k) == (k - 1) * (chunk_size - overlap)

\* C13 (as claimed): every chunk returned by chunk_text except possibly
\* the last one has exactly chunk_size words.
C13_AllButLastFull ==
    Chunked => \A k \in 1..(Len(spans) - 1) : Len(spans[k]) = chunk_size

\* C13 (amended): for chunk_size >= 1, chunk k has exactly chunk_size
\* words when its window fits (start + chunk_size <= word count) and
\* word count - start words otherwise, whether or not it is the last.
C13_FullWhenWindowFits ==
    (chunk_size >= 1 /\ tpc \in {"loop", "chunked", "persisted"}) =>
        \A k \in 1..Len(spans) :
            Len(spans[k]) = Min(chunk_size, Len(words) - StartOf(k))

C13_Witness ==
    /\ Chunked
    /\ chunk_size >= 1
    /\ overlap >= 0
    /\ \E k \in 1..(Len(spans) - 1) : Len(spans[k]) < chunk_size

\* ------------------------------------------------------------------ C14
\* C14 (as claimed): every word of the input appears in at least one chunk
\* returned by chunk_text, for every chunk_size > overlap.
C14_EveryWordCovered ==
    Chunked =>
        \A p \in 1..Len(words) : \E k \in 1..Len(spans) : p \in Range(spans[k])

\* ------------------------------------------------------------------ C15
\* C15 (as claimed): the list written by extract_text holds no chunk that
\* is empty after normalization.
C15_NoEmptyPersistedChunk ==
    tpc = "persisted" => \A k \in 1..Len(persisted) : persisted[k] # <<>>

\* ------------------------------------------------------------------ C16
\* the identifiers of document d that the per-document pipeline stores
TextIdsOf(d) ==
    IF container[d].chunks.exists /\ ValidChunks(container[d].chunks)
    THEN {<<d, "chunk", k>> : k \in 1..Len(container[d].chunks.elems)}
    ELSE {}

ImageIdsOf(d) ==
    {<<d, "image", container[d].captions.rows[i].image_name>> :
        i \in 1..Len(container[d].captions.rows)}

\* C16 (as claimed): after generate_embeddings has answered 200, every
\* document under extracted_data with a chunks or captions artifact has
\* its records in the collections.
C16_BulkEmbedsEveryDocument ==
    http_status = 200 =>
        \A d \in Docs :
            /\ TextIdsOf(d) \subseteq Ids(text_coll)
            /\ ImageIdsOf(d) \subseteq Ids(img_coll)

\* ------------------------------------------------------------------ C20
\* C20: the keys are tried in order, the second only after a 401, 403 or
\* 429 for the first; a 200 returns the caption of the body, or the
\* placeholder when the body has none; any other status is returned at
\* once as an error string; after a 401, 403 or 429 for both keys an
\* error string is returned; the function raises only when a post raises.
C20_CredentialFallback ==
    /\ tried \in {<<>>, <<1>>, <<1, 2>>}
    /\ Len(tried) = 2 =>
          /\ ~responses[1].raises
          /\ responses[1].status \in {401, 403, 429}
    /\ cpc = "raised" => responses[tried[Len(tried)]].raises
    /\ cpc = "returned" =>
          LET k == tried[Len(tried)]
              response == responses[k]
          IN  /\ ~response.raises
              /\ response.status = 200 =>
                    caption = IF response.lookup = "text"
                              THEN CaptionText(k)
                              ELSE NoCaptionGenerated
              /\ response.status \in {401, 403, 429} =>
                    /\ k = 2
                    /\ caption = AllKeysFailed(response.status, 2)
              /\ response.status \notin {200, 401, 403, 429} =>
                    caption = ErrorCaption(response.status, k)

C20_Witness ==
    /\ cpc = "returned"
    /\ tried = <<1, 2>>
    /\ responses[1].status = 429
    /\ caption = CaptionText(2)

\* ------------------------------------------------------------------ C22
\* the number of start indices k * (chunk_size - overlap) below the word count
StartsBelow(n) ==
    Cardinality({k \in 0..n : k * (chunk_size - overlap) < n})

\* chunk k (1-based) is the run of consecutive words that begins at its
\* start index and is at most chunk_size long
IsWindow(k) ==
    /\ Len(spans[k]) >= 1
    /\ Len(spans[k]) <= chunk_size
    /\ \A j \in 1..Len(spans[k]) : spans[k][j] = StartOf(k) + j

\* C22 (as claimed): chunk_text raises, with no chunk returned, exactly
\* when chunk_size <= overlap; otherwise it returns, chunk k is the word
\* window that starts at k * (chunk_size - overlap) and is at most
\* chunk_size long, and there is a window for every start index below the
\* word count.
C22_WindowsByStartIndex ==
    /\ tpc \in {"failed", "loop", "chunked", "persisted"} =>
          (tpc = "failed" <=> chunk_size <= overlap)
    /\ tpc = "failed" => text_chunks = <<>>
    /\ Chunked =>
          /\ \A k \in 1..Len(spans) : IsWindow(k)
          /\ Len(spans) = StartsBelow(Len(words))

\* ------------------------------------------------------------------ C23
\* C23: every record of the text collection stored under the identifier
\* of chunk k has the text of chunk k of the chunks artifact, in every
\* reachable state, failed and concurrent runs included.
C23_TextStoredUnderOwnIdentifier ==
    \A d \in text_coll :
        \E k \in 1..Len(chunks_blob.elems) :
            /\ d._id = ChunkId(k)
            /\ d.text = chunks_blob.elems[k].val

\* a run built a batch that numbers a later chunk as chunk 1 and the
\* store refused it
C23_Witness ==
    \E r \in Runs :
        /\ pc[r] = "raised"
        /\ raised[r] = "BulkWriteError"
        /\ raised_in[r] = "text"
        /\ documents[r]["text"] # <<>>
        /\ documents[r]["text"][1]._id = ChunkId(1)
        /\ documents[r]["text"][1].text # chunks_blob.elems[1].val
        /\ inserted[r]["text"] = {}
        /\ text_coll # {}

\* ------------------------------------------------------------------ C21
RECURSIVE MeetingUpTo(_)
\* the positions up to n of the images that reach both minimum sizes
MeetingUpTo(n) ==
    IF n = 0 THEN <<>>
    ELSE IF images[n].wide /\ images[n].high
    THEN Append(MeetingUpTo(n - 1), n)
    ELSE MeetingUpTo(n - 1)

\* the captioning of the image did not end with a 200
CaptioningFailed(img) ==
    img.outcome.raised \/ img.outcome.caption.status # 200

\* the rows are those of the images that reach the minimum sizes, one
\* each and in order; a failed captioning is recorded as an error string
RowsOfImages(rows, n) ==
    /\ [k \in 1..Len(rows) |-> rows[k].image_name] = MeetingUpTo(n)
    /\ \A k \in 1..Len(rows) :
          LET img == images[rows[k].image_name]
          IN  /\ CaptioningFailed(img) =>
                    /\ rows[k].caption.kind \in
                          {"Error", "Error: All API keys failed", "Error: {e}"}
                    /\ ~img.outcome.raised =>
                          rows[k].caption.status = img.outcome.caption.status
              /\ ~CaptioningFailed(img) => rows[k].caption = img.outcome.caption

\* C21: every extracted image that reaches the minimum width and height
\* has exactly one row in the captions CSV, in extraction order, and the
\* row of an image whose captioning failed or raised has an error string
\* as caption; no captioning outcome makes the function raise.
C21_CaptionFailureKeepsRow ==
    /\ ipc = "loop" => RowsOfImages(caption_rows, img_i - 1)
    /\ ipc = "written" => RowsOfImages(csv, Len(images))
    /\ ipc = "raised" => images[img_i].broken

C21_Witness ==
    /\ ipc = "written"
    /\ Len(images) = 2
    /\ Len(csv) = 2
    /\ images[1].outcome.raised
    /\ csv[1].caption = ExceptionCaption
    /\ csv[2].caption.kind = "Error: All API keys failed"

====
